---- MODULE Spec2Model ----
(***************************************************************************)
(* Model of rukshanverse/mcp-for-next.js.                                  *)
(*                                                                         *)
(*   Tool Host      src/app/page.tsx       add_todo / complete_todo /      *)
(*                                         list_todos over the in-memory   *)
(*                                         todos and nextId                *)
(*   Injected script src/unnamed/part_000  checkAndRenderData, the message *)
(*                                         listener, the 100ms poll and    *)
(*                                         the 5000ms timeout              *)
(*   Post-Processor src/unnamed/part_000   processWidgetHtml               *)
(*                                                                         *)
(* Each part has its own specification (Spec, ScriptSpec, HtmlSpec); the   *)
(* variables of the other parts stay at their initial values.              *)
(***************************************************************************)
EXTENDS Integers, Sequences, FiniteSets, TLC

VARIABLES
    \* ---- Tool Host (src/app/page.tsx)
    todos,          \* let todos: Array<{id, title, completed}>
    nextId,         \* let nextId
    response,       \* the value returned by the last tool call
    lastCall,       \* history: the last tool call and its argument
    calls,          \* history: number of tool calls handled so far
    assigned,       \* history: the ids add_todo has assigned, in order
    todoWidgetHtml, \* let todoWidgetHtml: the widget document held in memory
    loadFailed,     \* history: readFileSync threw at startup
    resourceText,   \* contents[0].text of the last resource fetch
    \* ---- Injected script and widget (src/unnamed/part_000)
    spc,            \* "unloaded" until the script block has run, then "running"
    domListener,    \* a DOMContentLoaded listener is registered and has not run
    toolOutput,     \* window.openai?.toolOutput?.tasks
    metaTasks,      \* window.openai?.toolResponseMetadata?.['openai/widgetData']?.tasks
    renderDefined,  \* window.renderTodos exists (the widget is mounted)
    shown,          \* the widget's state: the argument of the last render call
    interval,       \* "none", "active" or "cleared": the setInterval handle
    timeoutFired,   \* the setTimeout callback has run
    clock,          \* milliseconds since the script ran
    tickDue,        \* an interval callback is due and has not run yet
    pollTicks,      \* history: number of interval callbacks that have run
    pollFound,      \* history: number of interval callbacks that found data
    scriptRenders,  \* history: number of window.renderTodos calls by the script
    msgs,           \* history: number of message events dispatched
    lastMsg,        \* history: event.data of the last message event
    \* ---- Post-Processor (src/unnamed/part_000)
    hpc,            \* "input" before processWidgetHtml ran, "done" after
    html,           \* the argument of processWidgetHtml
    out,            \* its return value
    out2,           \* the return value of a second application, to out
    \* ---- Build Orchestrator (buildWidget, src/unnamed/part_000)
    bpc,            \* position in buildWidget
    bfetch,         \* history: what fetch(WIDGET_CONFIG.url) did
    bhtml,          \* let html
    bdir,           \* the output directory exists
    bfile,          \* the output file: whether it exists, and its text
    bstart,         \* history: bdir and bfile when the run started
    berr,           \* the error the catch block received
    breported,      \* the catch block has written its failure lines
    exitCode,       \* the status the process ended with, -1 while it runs
    trace,          \* history: the steps of buildWidget taken, in order
    \* ---- Tool calls in flight (src/app/page.tsx)
    handlers,       \* per request: the call, its handler's position and locals
    order           \* history: the requests in the order their handlers began

docVars == <<todoWidgetHtml, loadFailed, resourceText>>

hostVars == <<todos, nextId, response, lastCall, calls, assigned, docVars>>

scriptVars ==
    <<spc, domListener, toolOutput, metaTasks, renderDefined, shown, interval,
      timeoutFired, clock, tickDue, pollTicks, pollFound, scriptRenders, msgs,
      lastMsg>>

htmlVars == <<hpc, html, out, out2>>

buildVars ==
    <<bpc, bfetch, bhtml, bdir, bfile, bstart, berr, breported, exitCode,
      trace>>

concVars == <<handlers, order>>

vars == <<hostVars, scriptVars, htmlVars, buildVars, concVars>>

-----------------------------------------------------------------------------
(***************************************************************************)
(* Bounds                                                                  *)
(***************************************************************************)
MaxCalls == 5

\* Titles a client may send; "" is the one the input schema rejects.
Titles == {"", "a", "Buy milk"}

\* The id written with a padded number.
TodoId_Padded(n) == "todo-0" \o ToString(n)

\* The id `todo-${n}` of the template literal at page.tsx:99.
TodoId(n) == "todo-" \o ToString(n)

\* nextId++ written as a read without the increment.
PostIncrement_Stuck(n) == n

\* The value nextId++ leaves in nextId.
PostIncrement(n) == n + 1

\* Ids a client may send to complete_todo: every id add_todo can have
\* assigned within the bound, one it has not assigned yet, and strings
\* that are no id at all ("" is rejected by the input schema).
IdInputs ==
    {TodoId(n) : n \in 0..(MaxCalls + 1)} \cup {"", "1", "Todo-1", "todo-01"}

-----------------------------------------------------------------------------
(***************************************************************************)
(* Tool Host                                                               *)
(***************************************************************************)
Bool(b) == IF b THEN "true" ELSE "false"

\* JSON.stringify of one task. The titles of Titles hold no character that
\* JSON escapes, so the title is written between quotes as it is.
TaskJson(t) ==
    "{\"id\":\"" \o t.id \o "\",\"title\":\"" \o t.title
        \o "\",\"completed\":" \o Bool(t.completed) \o "}"

RECURSIVE TasksJson(_)
TasksJson(ts) ==
    IF ts = <<>> THEN ""
    ELSE IF Len(ts) = 1 THEN TaskJson(ts[1])
    ELSE TaskJson(ts[1]) \o "," \o TasksJson(Tail(ts))

\* `<widget-data>${JSON.stringify({ tasks: todos })}</widget-data>`
WidgetData(ts) ==
    "<widget-data>{\"tasks\":[" \o TasksJson(ts) \o "]}</widget-data>"

\* A response whose metadata carries an empty collection.
Response_MetaEmpty(text, ts) ==
    [isError |-> FALSE,
     text |-> text,
     widgetData |-> WidgetData(ts),
     structuredContent |-> ts,
     meta |-> <<>>]

\* The object every handler returns: two text blocks, structuredContent and
\* _meta["openai/widgetData"].
Response(text, ts) ==
    [isError |-> FALSE,
     text |-> text,
     widgetData |-> WidgetData(ts),
     structuredContent |-> ts,
     meta |-> ts]

NoResponse ==
    [isError |-> FALSE, text |-> "", widgetData |-> "",
     structuredContent |-> <<>>, meta |-> <<>>]

\* What the request layer answers when the arguments fail the input schema
\* (z.string().min(1)): the handler does not run.
SchemaError ==
    [isError |-> TRUE, text |-> "Invalid arguments", widgetData |-> "",
     structuredContent |-> <<>>, meta |-> <<>>]

\* z.string().min(1)
MinLen1(s) == s # ""

\* find with the comparison written as a test that holds for every task.
Find_Any(ts, id) == IF ts = <<>> THEN 0 ELSE 1

\* todos.find((task) => task.id === id): the index of the first match, 0
\* when there is none.
Find(ts, id) ==
    IF \E i \in 1..Len(ts) : ts[i].id = id
    THEN CHOOSE i \in 1..Len(ts) :
            /\ ts[i].id = id
            /\ \A j \in 1..(i - 1) : ts[j].id # id
    ELSE 0

\* map that marks every task, whatever its id.
MapCompleted_All(ts, id) ==
    [i \in 1..Len(ts) |-> [ts[i] EXCEPT !.completed = TRUE]]

\* map that flips the flag of the matching task instead of setting it.
MapCompleted_Toggle(ts, id) ==
    [i \in 1..Len(ts) |->
        IF ts[i].id = id
        THEN [ts[i] EXCEPT !.completed = ~ts[i].completed] ELSE ts[i]]

\* todos.map((task) => task.id === id ? { ...task, completed: true } : task)
MapCompleted(ts, id) ==
    [i \in 1..Len(ts) |->
        IF ts[i].id = id THEN [ts[i] EXCEPT !.completed = TRUE] ELSE ts[i]]

\* The new task created already completed.
NewTodo_Completed(n, title) ==
    [id |-> TodoId(n), title |-> title, completed |-> TRUE]

\* const todo = { id: `todo-${nextId++}`, title, completed: false }
NewTodo(n, title) == [id |-> TodoId(n), title |-> title, completed |-> FALSE]

\* The new task put in front of the others.
SpreadAppend_Front(ts, todo) == <<todo>> \o ts

\* [...todos, todo]
SpreadAppend(ts, todo) == Append(ts, todo)

\* The widget documents public/todo-widget.html may hold (an empty file
\* included).
BuiltDocs == {"", "<html><body>todo widget</body></html>"}

\* The fallback document of the catch block (page.tsx:45-53).
Placeholder == "<html><body><h2>Widget Not Built</h2></body></html>"

\* What readFileSync does at startup: it returns the file's text or throws.
ReadOutcomes ==
    {[ok |-> TRUE, text |-> d] : d \in BuiltDocs} \cup {[ok |-> FALSE, text |-> ""]}

\* The catch block left without an assignment.
LoadWidget_NoFallback(o) == o.text

\* try { todoWidgetHtml = readFileSync(...) } catch { todoWidgetHtml = `...` }
LoadWidget(o) == IF o.ok THEN o.text ELSE Placeholder

\* text: todoWidgetHtml (page.tsx:73)
ResourceText(doc) == doc

\* The module state with the widget document not looked at.
HostIdle ==
    /\ todos = <<>>
    /\ nextId = 1
    /\ response = NoResponse
    /\ lastCall = [op |-> "none", arg |-> ""]
    /\ calls = 0
    /\ assigned = <<>>
    /\ todoWidgetHtml = Placeholder
    /\ loadFailed = TRUE
    /\ resourceText = ""

HostInit ==
    /\ \E o \in ReadOutcomes :
          /\ todoWidgetHtml = LoadWidget(o)
          /\ loadFailed = ~o.ok
    /\ resourceText = ""
    /\ todos = <<>>
    /\ nextId = 1
    /\ response = NoResponse
    /\ lastCall = [op |-> "none", arg |-> ""]
    /\ calls = 0
    /\ assigned = <<>>

add_todo(title) ==
    /\ calls < MaxCalls
    /\ MinLen1(title)
    /\ LET todo == NewTodo(nextId, title)
       IN  /\ nextId' = PostIncrement(nextId)
           /\ todos' = SpreadAppend(todos, todo)
           /\ assigned' = Append(assigned, todo.id)
           /\ response' = Response("Added \"" \o todo.title \o "\".", todos')
    /\ lastCall' = [op |-> "add_todo", arg |-> title]
    /\ calls' = calls + 1
    /\ UNCHANGED <<docVars, scriptVars, htmlVars, buildVars, concVars>>

complete_todo(id) ==
    /\ calls < MaxCalls
    /\ MinLen1(id)
    /\ LET k == Find(todos, id)
       IN  IF k = 0
           THEN /\ response' = Response("Todo " \o id \o " was not found.", todos)
                /\ todos' = todos
           ELSE /\ todos' = MapCompleted(todos, id)
                /\ response' =
                     Response("Completed \"" \o todos[k].title \o "\".", todos')
    /\ lastCall' = [op |-> "complete_todo", arg |-> id]
    /\ calls' = calls + 1
    /\ UNCHANGED <<nextId, assigned, docVars, scriptVars, htmlVars, buildVars, concVars>>

\* The count message written over the open todos only.
ListText_Open(ts) ==
    "You have "
        \o ToString(Cardinality({i \in 1..Len(ts) : ~ts[i].completed}))
        \o " todos."

\* `You have ${todos.length} todos.`
ListText(ts) == "You have " \o ToString(Len(ts)) \o " todos."

\* list_todos written so that it also empties the collection.
list_todos_Clears ==
    /\ calls < MaxCalls
    /\ response' = Response("You have " \o ToString(Len(todos)) \o " todos.", <<>>)
    /\ todos' = <<>>
    /\ lastCall' = [op |-> "list_todos", arg |-> ""]
    /\ calls' = calls + 1
    /\ UNCHANGED <<nextId, assigned, docVars, scriptVars, htmlVars, buildVars, concVars>>

list_todos ==
    /\ calls < MaxCalls
    /\ response' = Response(ListText(todos), todos)
    /\ lastCall' = [op |-> "list_todos", arg |-> ""]
    /\ calls' = calls + 1
    /\ UNCHANGED <<todos, nextId, assigned, docVars, scriptVars, htmlVars, buildVars, concVars>>

\* The resource callback of ui://widget/todo.html.
ReadResource ==
    /\ calls < MaxCalls
    /\ resourceText' = ResourceText(todoWidgetHtml)
    /\ lastCall' = [op |-> "read_resource", arg |-> "ui://widget/todo.html"]
    /\ calls' = calls + 1
    /\ UNCHANGED <<todos, nextId, response, assigned, todoWidgetHtml,
                   loadFailed, scriptVars, htmlVars, buildVars, concVars>>

\* A call whose argument fails the input schema is answered before the
\* handler executes.
RejectInvalid(op, arg) ==
    /\ calls < MaxCalls
    /\ ~MinLen1(arg)
    /\ response' = SchemaError
    /\ lastCall' = [op |-> op, arg |-> arg]
    /\ calls' = calls + 1
    /\ UNCHANGED <<todos, nextId, assigned, docVars, scriptVars, htmlVars, buildVars, concVars>>

-----------------------------------------------------------------------------
(***************************************************************************)
(* Injected script and widget: initial values                              *)
(***************************************************************************)
\* The values a tasks field can hold: absent, or an array of tasks (the
\* empty one included).
TaskVals == {"undefined", "[]", "[t1]"}

\* JavaScript truthiness of such a value: every array is truthy.
Truthy(v) == v # "undefined"

NoMsg == [type |-> "none", contentTasks |-> "undefined", tasks |-> "undefined"]

\* event.data of the message events the frame may receive: the two shapes
\* the listeners know, the same with the tasks in the other shape's place,
\* and a message of another type.
Messages ==
    {[type |-> "structuredContent", contentTasks |-> v, tasks |-> "undefined"] :
        v \in {"[]", "[t1]"}}
    \cup {[type |-> "widgetData", contentTasks |-> "undefined", tasks |-> v] :
        v \in {"[]", "[t1]"}}
    \cup {[type |-> "structuredContent", contentTasks |-> "undefined", tasks |-> "[t1]"],
          [type |-> "widgetData", contentTasks |-> "[t1]", tasks |-> "undefined"],
          [type |-> "other", contentTasks |-> "[t1]", tasks |-> "[t1]"]}

ScriptIdle ==
    /\ spc = "unloaded"
    /\ domListener = FALSE
    /\ toolOutput = "undefined"
    /\ metaTasks = "undefined"
    /\ renderDefined = FALSE
    /\ shown = "[]"
    /\ interval = "none"
    /\ timeoutFired = FALSE
    /\ clock = 0
    /\ tickDue = FALSE
    /\ pollTicks = 0
    /\ pollFound = 0
    /\ scriptRenders = 0
    /\ msgs = 0
    /\ lastMsg = NoMsg

-----------------------------------------------------------------------------
(***************************************************************************)
(* Injected script (dataInjectionScript, part_000:83-127) and the widget   *)
(* that defines window.renderTodos (part_000:156-207)                      *)
(***************************************************************************)
\* setInterval(..., 100)
PollIntervalMs == 100

\* setTimeout(..., 5000)
PollTimeoutMs == 5000

\* Number of message events a behaviour dispatches.
MaxMsgs == 2

\* The return value of checkAndRenderData(): method 1 or method 2 has data.
DataFound(to, mt) == Truthy(to) \/ Truthy(mt)

\* The two methods consulted in the other order.
DataToRender_MetaFirst(to, mt) == IF Truthy(mt) THEN mt ELSE to

\* The tasks checkAndRenderData() passes on: method 1 before method 2.
DataToRender(to, mt) == IF Truthy(to) THEN to ELSE mt

\* renderTodos: setTodos(tasks || [])
RenderTodos(tasks) == IF Truthy(tasks) THEN tasks ELSE "[]"

\* checkAndRenderData(): the render call it makes, if any.
CheckAndRenderData ==
    IF DataFound(toolOutput, metaTasks) /\ renderDefined
    THEN /\ shown' = RenderTodos(DataToRender(toolOutput, metaTasks))
         /\ scriptRenders' = scriptRenders + 1
    ELSE UNCHANGED <<shown, scriptRenders>>

\* The interval callback that never clears its interval.
IntervalAfterPoll_Never(found) == "active"

\* if (checkAndRenderData()) { clearInterval(interval); }
IntervalAfterPoll(found) == IF found THEN "cleared" ELSE "active"

\* A timeout callback that leaves the interval as it is.
IntervalAfterTimeout_Keeps(cur) == cur

\* setTimeout(() => clearInterval(interval), 5000)
IntervalAfterTimeout(cur) == "cleared"

\* A listener that renders only while the poll is still running.
ListenerTasks_Gated(m) ==
    IF interval # "active" THEN <<>>
    ELSE (IF m.type = "structuredContent" /\ Truthy(m.contentTasks)
          THEN <<m.contentTasks>> ELSE <<>>)
         \o (IF m.type = "widgetData" /\ Truthy(m.tasks)
             THEN <<m.tasks>> ELSE <<>>)

\* The script's message listener: the arguments of the render calls its two
\* if statements make for event.data = m, in order.
ListenerTasks(m) ==
    (IF m.type = "structuredContent" /\ Truthy(m.contentTasks)
     THEN <<m.contentTasks>> ELSE <<>>)
    \o (IF m.type = "widgetData" /\ Truthy(m.tasks)
        THEN <<m.tasks>> ELSE <<>>)

\* The widget's handleMessage: the same two if statements, calling
\* renderTodos directly.
HandleMessageTasks(m) ==
    (IF m.type = "structuredContent" /\ Truthy(m.contentTasks)
     THEN <<m.contentTasks>> ELSE <<>>)
    \o (IF m.type = "widgetData" /\ Truthy(m.tasks)
        THEN <<m.tasks>> ELSE <<>>)

\* The script block runs: it registers the message listener, makes the
\* initial check (now, or on DOMContentLoaded while the document is still
\* loading), and starts the interval and the timeout.
RunScript(rs) ==
    /\ spc = "unloaded"
    /\ spc' = "running"
    /\ interval' = "active"
    /\ IF rs = "loading"
       THEN /\ domListener' = TRUE
            /\ UNCHANGED <<shown, scriptRenders>>
       ELSE /\ domListener' = FALSE
            /\ CheckAndRenderData
    /\ UNCHANGED <<toolOutput, metaTasks, renderDefined, timeoutFired, clock,
                   tickDue, pollTicks, pollFound, msgs, lastMsg>>
    /\ UNCHANGED <<hostVars, htmlVars, buildVars, concVars>>

\* document.addEventListener('DOMContentLoaded', checkAndRenderData)
DOMContentLoaded ==
    /\ domListener
    /\ domListener' = FALSE
    /\ CheckAndRenderData
    /\ UNCHANGED <<spc, toolOutput, metaTasks, renderDefined, interval,
                   timeoutFired, clock, tickDue, pollTicks, pollFound, msgs,
                   lastMsg>>
    /\ UNCHANGED <<hostVars, htmlVars, buildVars, concVars>>

\* Time passes until the next timer is due: the interval's next period
\* while it is live (the callback that is due runs before the next period
\* ends), the timeout otherwise.
Advance ==
    /\ spc = "running"
    /\ clock < PollTimeoutMs
    /\ ~(interval = "active" /\ tickDue)
    /\ clock' = IF interval = "active" THEN clock + PollIntervalMs
                ELSE PollTimeoutMs
    /\ tickDue' = (interval = "active")
    /\ UNCHANGED <<spc, domListener, toolOutput, metaTasks, renderDefined,
                   shown, interval, timeoutFired, pollTicks, pollFound,
                   scriptRenders, msgs, lastMsg>>
    /\ UNCHANGED <<hostVars, htmlVars, buildVars, concVars>>

\* The interval callback.
PollTick ==
    /\ interval = "active"
    /\ tickDue
    /\ tickDue' = FALSE
    /\ pollTicks' = pollTicks + 1
    /\ CheckAndRenderData
    /\ LET found == DataFound(toolOutput, metaTasks)
       IN  /\ interval' = IntervalAfterPoll(found)
           /\ pollFound' = IF found THEN pollFound + 1 ELSE pollFound
    /\ UNCHANGED <<spc, domListener, toolOutput, metaTasks, renderDefined,
                   timeoutFired, clock, msgs, lastMsg>>
    /\ UNCHANGED <<hostVars, htmlVars, buildVars, concVars>>

\* The timeout callback, due 5000ms after the script ran.
Timeout ==
    /\ spc = "running"
    /\ clock = PollTimeoutMs
    /\ ~timeoutFired
    /\ timeoutFired' = TRUE
    /\ interval' = IntervalAfterTimeout(interval)
    /\ tickDue' = (tickDue /\ interval' = "active")
    /\ UNCHANGED <<spc, domListener, toolOutput, metaTasks, renderDefined,
                   shown, clock, pollTicks, pollFound, scriptRenders, msgs,
                   lastMsg>>
    /\ UNCHANGED <<hostVars, htmlVars, buildVars, concVars>>

\* A message event with event.data = m is dispatched to the listeners that
\* are registered: the script's once the script has run, the widget's
\* handleMessage while the widget is mounted.
Message(m) ==
    /\ msgs < MaxMsgs
    /\ msgs' = msgs + 1
    /\ lastMsg' = m
    /\ LET byScript ==
               IF spc = "running" /\ renderDefined
               THEN ListenerTasks(m) ELSE <<>>
           byWidget == IF renderDefined THEN HandleMessageTasks(m) ELSE <<>>
           all == byScript \o byWidget
       IN  /\ scriptRenders' = scriptRenders + Len(byScript)
           /\ shown' = IF all = <<>> THEN shown
                       ELSE RenderTodos(all[Len(all)])
    /\ UNCHANGED <<spc, domListener, toolOutput, metaTasks, renderDefined,
                   interval, timeoutFired, clock, tickDue, pollTicks,
                   pollFound>>
    /\ UNCHANGED <<hostVars, htmlVars, buildVars, concVars>>

\* The host runtime sets window.openai.toolOutput.
HostSetToolOutput(v) ==
    /\ v # toolOutput
    /\ toolOutput' = v
    /\ UNCHANGED <<spc, domListener, metaTasks, renderDefined, shown,
                   interval, timeoutFired, clock, tickDue, pollTicks,
                   pollFound, scriptRenders, msgs, lastMsg>>
    /\ UNCHANGED <<hostVars, htmlVars, buildVars, concVars>>

\* The host runtime sets window.openai.toolResponseMetadata.
HostSetMetadata(v) ==
    /\ v # metaTasks
    /\ metaTasks' = v
    /\ UNCHANGED <<spc, domListener, toolOutput, renderDefined, shown,
                   interval, timeoutFired, clock, tickDue, pollTicks,
                   pollFound, scriptRenders, msgs, lastMsg>>
    /\ UNCHANGED <<hostVars, htmlVars, buildVars, concVars>>

\* The widget's effect runs: window.renderTodos = renderTodos, then the
\* initial checkOpenAIData() on a state that starts as [].
WidgetMount ==
    /\ ~renderDefined
    /\ renderDefined' = TRUE
    /\ shown' = IF Truthy(toolOutput) THEN RenderTodos(toolOutput) ELSE "[]"
    /\ UNCHANGED <<spc, domListener, toolOutput, metaTasks, interval,
                   timeoutFired, clock, tickDue, pollTicks, pollFound,
                   scriptRenders, msgs, lastMsg>>
    /\ UNCHANGED <<hostVars, htmlVars, buildVars, concVars>>

\* The widget's own interval: setInterval(checkOpenAIData, 100).
WidgetPoll ==
    /\ renderDefined
    /\ Truthy(toolOutput)
    /\ shown' = RenderTodos(toolOutput)
    /\ UNCHANGED <<spc, domListener, toolOutput, metaTasks, renderDefined,
                   interval, timeoutFired, clock, tickDue, pollTicks,
                   pollFound, scriptRenders, msgs, lastMsg>>
    /\ UNCHANGED <<hostVars, htmlVars, buildVars, concVars>>

\* The effect's cleanup: delete window.renderTodos; the state is dropped.
WidgetUnmount ==
    /\ renderDefined
    /\ renderDefined' = FALSE
    /\ shown' = "[]"
    /\ UNCHANGED <<spc, domListener, toolOutput, metaTasks, interval,
                   timeoutFired, clock, tickDue, pollTicks, pollFound,
                   scriptRenders, msgs, lastMsg>>
    /\ UNCHANGED <<hostVars, htmlVars, buildVars, concVars>>

(***************************************************************************)
(* Post-Processor (processWidgetHtml, part_000:81-137)                     *)
(*                                                                         *)
(* A text is a sequence of pieces, each piece a fixed string, and stands   *)
(* for their concatenation. The pieces are chosen so that a search for     *)
(* "</body>" or for the script block in a concatenation finds exactly the  *)
(* occurrences made of whole pieces: "</body>" is one piece and no other   *)
(* piece holds a "<" but the script element, which does not hold "</body>";*)
(* the script block is "\n" and four spaces, the script element, "\n" and  *)
(* two spaces, and only the piece NL2 holds a line break.                  *)
(***************************************************************************)
\* Longest input text, in pieces.
MaxLen == 5

\* "\n" followed by two spaces.
NL2 == "\n  "

\* Two spaces.
SP2 == "  "

\* The text from <script> to </script> of the template literal (lines
\* 84-126); it holds no "$", so String.replace inserts it as it is.
ScriptElement == "<script>...</script>"

Pieces == {NL2, SP2, ScriptElement, "</body>", "</BODY>", "x"}

Texts == UNION {[1..n -> Pieces] : n \in 0..MaxLen}

\* const dataInjectionScript = `\n    <script>...</script>\n  `
dataInjectionScript == <<NL2, SP2, ScriptElement, NL2>>

\* The literal "</body>".
CloseBody == <<"</body>">>

\* pat occurs in h at position i.
OccursAt(h, pat, i) ==
    /\ i >= 1
    /\ i + Len(pat) - 1 <= Len(h)
    /\ SubSeq(h, i, i + Len(pat) - 1) = pat

\* String.prototype.includes
Includes(h, pat) == \E i \in 1..(Len(h) + 1) : OccursAt(h, pat, i)

\* String.prototype.indexOf: the first position, 0 when there is none.
IndexOf(h, pat) ==
    IF Includes(h, pat)
    THEN CHOOSE i \in 1..(Len(h) + 1) :
            /\ OccursAt(h, pat, i)
            /\ \A j \in 1..(i - 1) : ~OccursAt(h, pat, j)
    ELSE 0

\* replace written as replaceAll: every occurrence of pat is replaced.
RECURSIVE Replace_All(_, _, _)
Replace_All(h, pat, rep) ==
    IF ~Includes(h, pat) THEN h
    ELSE LET i == IndexOf(h, pat)
         IN  SubSeq(h, 1, i - 1) \o rep
                \o Replace_All(SubSeq(h, i + Len(pat), Len(h)), pat, rep)

\* String.prototype.replace with a string pattern: the first occurrence of
\* pat is replaced by rep, the rest of h is kept.
Replace(h, pat, rep) ==
    IF ~Includes(h, pat) THEN h
    ELSE LET i == IndexOf(h, pat)
         IN  SubSeq(h, 1, i - 1) \o rep \o SubSeq(h, i + Len(pat), Len(h))

\* processWidgetHtml without the append fallback.
processWidgetHtml_NoFallback(h) ==
    IF Includes(h, CloseBody)
    THEN Replace(h, CloseBody, dataInjectionScript \o CloseBody)
    ELSE h

\* processWidgetHtml that leaves a text alone once it holds the block.
processWidgetHtml_Once(h) ==
    IF Includes(h, dataInjectionScript) THEN h
    ELSE IF Includes(h, CloseBody)
    THEN Replace(h, CloseBody, dataInjectionScript \o CloseBody)
    ELSE h \o dataInjectionScript

processWidgetHtml(h) ==
    IF Includes(h, CloseBody)
    THEN Replace(h, CloseBody, dataInjectionScript \o CloseBody)
    ELSE h \o dataInjectionScript

HtmlIdle ==
    /\ hpc = "input"
    /\ html = <<>>
    /\ out = <<>>
    /\ out2 = <<>>

\* The inputs of processWidgetHtml: any text.
HtmlInit ==
    /\ hpc = "input"
    /\ html \in Texts
    /\ out = <<>>
    /\ out2 = <<>>

\* html = processWidgetHtml(html) (part_000:48)
ProcessWidgetHtml ==
    /\ hpc = "input"
    /\ out' = processWidgetHtml(html)
    /\ hpc' = "done"
    /\ UNCHANGED <<html, out2>>
    /\ UNCHANGED <<hostVars, scriptVars, buildVars, concVars>>

\* processWidgetHtml applied to a text it has returned.
ProcessAgain ==
    /\ hpc = "done"
    /\ out2' = processWidgetHtml(out)
    /\ hpc' = "twice"
    /\ UNCHANGED <<html, out>>
    /\ UNCHANGED <<hostVars, scriptVars, buildVars, concVars>>

-----------------------------------------------------------------------------
(***************************************************************************)
(* Tool calls in flight (page.tsx:98-115, 133-168, 182-194)                *)
(*                                                                         *)
(* Several requests may have arrived before their handlers run. A handler  *)
(* is an async function with no await in its body: once it has begun, all  *)
(* its statements run before any other handler's.                          *)
(***************************************************************************)
\* Number of requests in flight at the same time.
MaxConc == 3

Requests == 1..MaxConc

\* The calls the requests carry.
ConcCalls ==
    {[op |-> "add_todo", arg |-> t] : t \in {"a", "Buy milk"}}
    \cup {[op |-> "complete_todo", arg |-> i] : i \in {"todo-1", "todo-2", "todo-9"}}
    \cup {[op |-> "list_todos", arg |-> ""]}

\* The positions at which a handler has begun and has statements left.
MidRun == {"add:append", "complete:map"}

NoHandler == [op |-> "none", arg |-> "", pc |-> "idle", n |-> 0]

ConcIdle ==
    /\ handlers = [r \in Requests |-> NoHandler]
    /\ order = <<>>

\* Handlers that may run their next statement at any time, as if every
\* statement were followed by an await.
CanRun_Always(r) == TRUE

\* Run to completion: a handler runs its next statement only when no other
\* handler is between its statements.
CanRun(r) == \A q \in Requests \ {r} : handlers[q].pc \notin MidRun

\* A request arrives; its handler has not begun.
Receive(r, c) ==
    /\ handlers[r].pc = "idle"
    /\ \A q \in 1..(r - 1) : handlers[q].pc # "idle"
    /\ handlers' = [handlers EXCEPT ![r] = [op |-> c.op, arg |-> c.arg,
                                            pc |-> "pending", n |-> 0]]
    /\ UNCHANGED order
    /\ UNCHANGED <<hostVars, scriptVars, htmlVars, buildVars>>

\* add_todo, first statement: const todo = { id: `todo-${nextId++}`, ... }
AddMakeTodo(r) ==
    /\ handlers[r].pc = "pending"
    /\ handlers[r].op = "add_todo"
    /\ CanRun(r)
    /\ handlers' = [handlers EXCEPT ![r].pc = "add:append", ![r].n = nextId]
    /\ nextId' = PostIncrement(nextId)
    /\ order' = Append(order, r)
    /\ UNCHANGED <<todos, response, lastCall, calls, assigned, docVars>>
    /\ UNCHANGED <<scriptVars, htmlVars, buildVars>>

\* add_todo, second statement: todos = [...todos, todo]; the return follows.
AddAppend(r) ==
    /\ handlers[r].pc = "add:append"
    /\ CanRun(r)
    /\ todos' = SpreadAppend(todos, NewTodo(handlers[r].n, handlers[r].arg))
    /\ handlers' = [handlers EXCEPT ![r].pc = "done"]
    /\ UNCHANGED <<nextId, response, lastCall, calls, assigned, docVars, order>>
    /\ UNCHANGED <<scriptVars, htmlVars, buildVars>>

\* complete_todo, first statement: const todo = todos.find(...); the
\* not-found branch returns at once.
CompleteFind(r) ==
    /\ handlers[r].pc = "pending"
    /\ handlers[r].op = "complete_todo"
    /\ CanRun(r)
    /\ LET k == Find(todos, handlers[r].arg)
       IN  handlers' = [handlers EXCEPT
                           ![r].pc = IF k = 0 THEN "done" ELSE "complete:map",
                           ![r].n = k]
    /\ order' = Append(order, r)
    /\ UNCHANGED <<todos, nextId, response, lastCall, calls, assigned, docVars>>
    /\ UNCHANGED <<scriptVars, htmlVars, buildVars>>

\* complete_todo, second statement: todos = todos.map(...); the return
\* follows.
CompleteMap(r) ==
    /\ handlers[r].pc = "complete:map"
    /\ CanRun(r)
    /\ todos' = MapCompleted(todos, handlers[r].arg)
    /\ handlers' = [handlers EXCEPT ![r].pc = "done"]
    /\ UNCHANGED <<nextId, response, lastCall, calls, assigned, docVars, order>>
    /\ UNCHANGED <<scriptVars, htmlVars, buildVars>>

\* list_todos: its one statement returns the collection.
ListReturn(r) ==
    /\ handlers[r].pc = "pending"
    /\ handlers[r].op = "list_todos"
    /\ CanRun(r)
    /\ handlers' = [handlers EXCEPT ![r].pc = "done", ![r].n = Len(todos)]
    /\ order' = Append(order, r)
    /\ UNCHANGED <<todos, nextId, response, lastCall, calls, assigned, docVars>>
    /\ UNCHANGED <<scriptVars, htmlVars, buildVars>>

-----------------------------------------------------------------------------
(***************************************************************************)
(* Build Orchestrator (buildWidget, part_000:27-76)                        *)
(***************************************************************************)
\* Longest page the rendering server answers with, in pieces.
MaxFetchLen == 2

FetchedTexts == {t \in Texts : Len(t) <= MaxFetchLen}

NoFetch == [kind |-> "none", status |-> 0, text |-> <<>>]

\* What fetch(WIDGET_CONFIG.url) can do: reject because nothing listens on
\* the port, or resolve with a response of some status and body.
FetchOutcomes ==
    {[kind |-> "refused", status |-> 0, text |-> <<>>]}
    \cup {[kind |-> "response", status |-> st, text |-> t] :
            st \in {200, 204}, t \in FetchedTexts}
    \cup {[kind |-> "response", status |-> st, text |-> <<"x">>] :
            st \in {304, 404, 500}}

\* The check of the status left out.
ResponseOk_Always(status) == TRUE

\* response.ok: the status is in the range 200-299.
ResponseOk(status) == status >= 200 /\ status <= 299

NoFile == [exists |-> FALSE, text |-> <<>>]

\* The output of an earlier run.
OldFile == [exists |-> TRUE, text |-> <<"old">>]

BuildIdle ==
    /\ bpc = "start"
    /\ bfetch = NoFetch
    /\ bhtml = <<>>
    /\ bdir = TRUE
    /\ bfile = NoFile
    /\ bstart = [dir |-> TRUE, file |-> NoFile]
    /\ berr = "none"
    /\ breported = FALSE
    /\ exitCode = -1
    /\ trace = <<>>

\* A run starts with or without the output directory and, in it, with or
\* without the file of an earlier run.
BuildInit ==
    /\ bpc = "start"
    /\ bfetch = NoFetch
    /\ bhtml = <<>>
    /\ bdir \in BOOLEAN
    /\ bfile \in (IF bdir THEN {NoFile, OldFile} ELSE {NoFile})
    /\ bstart = [dir |-> bdir, file |-> bfile]
    /\ berr = "none"
    /\ breported = FALSE
    /\ exitCode = -1
    /\ trace = <<>>

\* const response = await fetch(url); if (!response.ok) throw ...;
\* let html = await response.text()
BuildFetch(o) ==
    /\ bpc = "start"
    /\ bfetch' = o
    /\ trace' = Append(trace, "fetch")
    /\ IF o.kind = "refused"
       THEN /\ bpc' = "caught"
            /\ berr' = "ECONNREFUSED"
            /\ UNCHANGED bhtml
       ELSE IF ~ResponseOk(o.status)
       THEN /\ bpc' = "caught"
            /\ berr' = "HTTP"
            /\ UNCHANGED bhtml
       ELSE /\ bpc' = "fetched"
            /\ bhtml' = o.text
            /\ UNCHANGED berr
    /\ UNCHANGED <<bdir, bfile, bstart, breported, exitCode>>
    /\ UNCHANGED <<hostVars, scriptVars, htmlVars, concVars>>

\* html = processWidgetHtml(html)
BuildProcess ==
    /\ bpc = "fetched"
    /\ bhtml' = processWidgetHtml(bhtml)
    /\ trace' = Append(trace, "process")
    /\ bpc' = "processed"
    /\ UNCHANGED <<bfetch, bdir, bfile, bstart, berr, breported, exitCode>>
    /\ UNCHANGED <<hostVars, scriptVars, htmlVars, concVars>>

\* if (!existsSync(outputDir)) mkdirSync(outputDir, { recursive: true });
\* mkdirSync returns or throws.
BuildEnsureDir(throws) ==
    /\ bpc = "processed"
    /\ trace' = Append(trace, "dircheck")
    /\ IF bdir
       THEN /\ ~throws
            /\ bpc' = "dirReady"
            /\ UNCHANGED <<bdir, berr>>
       ELSE IF throws
       THEN /\ bpc' = "caught"
            /\ berr' = "EACCES"
            /\ UNCHANGED bdir
       ELSE /\ bpc' = "dirReady"
            /\ bdir' = TRUE
            /\ UNCHANGED berr
    /\ UNCHANGED <<bfetch, bhtml, bfile, bstart, breported, exitCode>>
    /\ UNCHANGED <<hostVars, scriptVars, htmlVars, concVars>>

\* writeFileSync(WIDGET_CONFIG.output, html, "utf8"): it replaces the file
\* or throws before touching it.
BuildWrite(throws) ==
    /\ bpc = "dirReady"
    /\ trace' = Append(trace, "write")
    /\ IF throws
       THEN /\ bpc' = "caught"
            /\ berr' = "EACCES"
            /\ UNCHANGED bfile
       ELSE /\ bpc' = "written"
            /\ bfile' = [exists |-> TRUE, text |-> bhtml]
            /\ UNCHANGED berr
    /\ UNCHANGED <<bfetch, bhtml, bdir, bstart, breported, exitCode>>
    /\ UNCHANGED <<hostVars, scriptVars, htmlVars, concVars>>

\* The success lines are logged and the process ends on its own.
BuildDone ==
    /\ bpc = "written"
    /\ bpc' = "exited"
    /\ exitCode' = 0
    /\ UNCHANGED <<bfetch, bhtml, bdir, bfile, bstart, berr, breported, trace>>
    /\ UNCHANGED <<hostVars, scriptVars, htmlVars, concVars>>

\* catch (error) { console.error(...); process.exit(1); }
BuildCatch ==
    /\ bpc = "caught"
    /\ breported' = TRUE
    /\ exitCode' = 1
    /\ bpc' = "exited"
    /\ UNCHANGED <<bfetch, bhtml, bdir, bfile, bstart, berr, trace>>
    /\ UNCHANGED <<hostVars, scriptVars, htmlVars, concVars>>

-----------------------------------------------------------------------------
Init == HostInit /\ ScriptIdle /\ HtmlIdle /\ BuildIdle /\ ConcIdle

Next ==
    \/ \E title \in Titles : add_todo(title)
    \/ \E id \in IdInputs : complete_todo(id)
    \/ list_todos
    \/ \E arg \in Titles \cap IdInputs : RejectInvalid("add_todo", arg)
    \/ \E arg \in Titles \cap IdInputs : RejectInvalid("complete_todo", arg)
    \/ ReadResource

Spec == Init /\ [][Next]_vars

ScriptNext ==
    \/ \E rs \in {"loading", "complete"} : RunScript(rs)
    \/ DOMContentLoaded
    \/ Advance
    \/ PollTick
    \/ Timeout
    \/ \E m \in Messages : Message(m)
    \/ \E v \in TaskVals : HostSetToolOutput(v)
    \/ \E v \in TaskVals : HostSetMetadata(v)
    \/ WidgetMount
    \/ WidgetPoll
    \/ WidgetUnmount

ScriptStart == HostIdle /\ ScriptIdle /\ HtmlIdle /\ BuildIdle /\ ConcIdle

ScriptSpec == ScriptStart /\ [][ScriptNext]_vars

HtmlNext == ProcessWidgetHtml \/ ProcessAgain

HtmlStart == HostIdle /\ ScriptIdle /\ HtmlInit /\ BuildIdle /\ ConcIdle

HtmlSpec == HtmlStart /\ [][HtmlNext]_vars

BuildNext ==
    \/ \E o \in FetchOutcomes : BuildFetch(o)
    \/ BuildProcess
    \/ \E throws \in BOOLEAN : BuildEnsureDir(throws)
    \/ \E throws \in BOOLEAN : BuildWrite(throws)
    \/ BuildDone
    \/ BuildCatch

ConcNext ==
    \/ \E r \in Requests, c \in ConcCalls : Receive(r, c)
    \/ \E r \in Requests : AddMakeTodo(r)
    \/ \E r \in Requests : AddAppend(r)
    \/ \E r \in Requests : CompleteFind(r)
    \/ \E r \in Requests : CompleteMap(r)
    \/ \E r \in Requests : ListReturn(r)

ConcStart == HostIdle /\ ScriptIdle /\ HtmlIdle /\ BuildIdle /\ ConcIdle

ConcSpec == ConcStart /\ [][ConcNext]_vars

BuildStart == HostIdle /\ ScriptIdle /\ HtmlIdle /\ BuildInit /\ ConcIdle

BuildSpec == BuildStart /\ [][BuildNext]_vars

-----------------------------------------------------------------------------
(***************************************************************************)
(* Tool Host: properties                                                   *)
(***************************************************************************)
\* The step just taken is a call of `op` that reached its handler.
Handled(op) ==
    /\ calls' = calls + 1
    /\ lastCall'.op = op
    /\ ~response'.isError

\* The number n of an id "todo-n"; -1 for a string that is no such id.
IdNum(id) ==
    IF \E n \in 0..(MaxCalls + 2) : id = TodoId(n)
    THEN CHOOSE n \in 0..(MaxCalls + 2) : id = TodoId(n)
    ELSE -1

\* C1: one add_todo call with a non-empty title makes the collection longer
\* by exactly 1, and the new item, placed last, has the given title and
\* completed = false.
C1_AddAppendsOne ==
    [][Handled("add_todo") =>
        /\ lastCall'.arg # ""
        /\ Len(todos') = Len(todos) + 1
        /\ todos'[Len(todos')].title = lastCall'.arg
        /\ todos'[Len(todos')].completed = FALSE]_vars

\* add_todo has just added "Buy milk" as the third item, after a completion.
C1_Witness ==
    /\ lastCall = [op |-> "add_todo", arg |-> "Buy milk"]
    /\ Len(todos) = 3
    /\ todos[3] = [id |-> "todo-3", title |-> "Buy milk", completed |-> FALSE]
    /\ todos[1].completed

\* C2: the ids of the items in the collection are pairwise distinct, and the
\* number of each id add_todo assigned is strictly greater than the number
\* of every id it assigned earlier.
C2_IdsDistinctIncreasing ==
    /\ \A i, j \in 1..Len(todos) : i # j => todos[i].id # todos[j].id
    /\ \A i \in 1..Len(assigned) : IdNum(assigned[i]) >= 0
    /\ \A i, j \in 1..Len(assigned) :
          i < j => IdNum(assigned[i]) < IdNum(assigned[j])

\* Three ids have been assigned, with complete_todo and list_todos calls
\* among the adds.
C2_Witness ==
    /\ Len(assigned) = 3
    /\ calls = MaxCalls
    /\ lastCall.op = "list_todos"
    /\ \E i \in 1..Len(todos) : todos[i].completed

\* C3: complete_todo with an id that exists sets the completed flag of
\* exactly that item and leaves every other item, the item's id and title,
\* the order, the length and nextId unchanged.
C3_CompleteFrame ==
    [][(Handled("complete_todo")
          /\ \E i \in 1..Len(todos) : todos[i].id = lastCall'.arg) =>
        /\ nextId' = nextId
        /\ \E k \in 1..Len(todos) :
              /\ todos[k].id = lastCall'.arg
              /\ todos' = [todos EXCEPT ![k].completed = TRUE]]_vars

\* The second of three items has just been completed; the others are open.
C3_Witness ==
    /\ lastCall = [op |-> "complete_todo", arg |-> "todo-2"]
    /\ Len(todos) = 3
    /\ todos[2].completed
    /\ ~todos[1].completed
    /\ ~todos[3].completed

\* C4: complete_todo with an id that matches no item leaves the collection
\* and nextId unchanged, raises nothing, and answers 'Todo <id> was not
\* found.' together with the unchanged collection.
C4_NotFoundNoOp ==
    [][(Handled("complete_todo")
          /\ \A i \in 1..Len(todos) : todos[i].id # lastCall'.arg) =>
        /\ todos' = todos
        /\ nextId' = nextId
        /\ response'.text = "Todo " \o lastCall'.arg \o " was not found."
        /\ response'.structuredContent = todos
        /\ response'.meta = todos]_vars

\* A not-found answer for "todo-3" while the collection holds two items.
C4_Witness ==
    /\ lastCall = [op |-> "complete_todo", arg |-> "todo-3"]
    /\ Len(todos) = 2
    /\ response.text = "Todo todo-3 was not found."

\* C5: complete_todo is idempotent: a second call in a row with the same
\* existing id leaves the collection and nextId as the first call left
\* them, and answers with the same confirmation text.
C5_CompleteIdempotent ==
    [][(/\ lastCall.op = "complete_todo"
        /\ \E i \in 1..Len(todos) : todos[i].id = lastCall.arg
        /\ Handled("complete_todo")
        /\ lastCall' = lastCall) =>
        /\ todos' = todos
        /\ nextId' = nextId
        /\ response'.text = response.text
        /\ response'.structuredContent = response.structuredContent]_vars

\* complete_todo("todo-1") has been called twice in a row on two items.
C5_Witness ==
    /\ calls = 4
    /\ Len(todos) = 2
    /\ lastCall = [op |-> "complete_todo", arg |-> "todo-1"]
    /\ response.text = "Completed \"a\"."
    /\ todos[1].completed
    /\ ~todos[2].completed

\* C6: list_todos changes neither the collection nor the identifier counter.
C6_ListReadsOnly ==
    [][Handled("list_todos") =>
        /\ todos' = todos
        /\ nextId' = nextId
        /\ assigned' = assigned
        /\ response'.structuredContent = todos]_vars

\* list_todos has just answered on a collection of two items, one completed.
C6_Witness ==
    /\ lastCall.op = "list_todos"
    /\ response.text = "You have 2 todos."
    /\ todos[2].completed

-----------------------------------------------------------------------------
(***************************************************************************)
(* Injected script: properties                                             *)
(***************************************************************************)
\* The step just taken is a run of the interval callback.
PollTickStep == pollTicks' = pollTicks + 1

\* The step just taken is the dispatch of a message event.
MessageStep == msgs' = msgs + 1

\* The tasks of a message of one of the two known shapes, "undefined" for
\* any other message.
ShapeTasks(m) ==
    IF m.type = "structuredContent" THEN m.contentTasks
    ELSE IF m.type = "widgetData" THEN m.tasks
    ELSE "undefined"

\* C7: a poll tick that finds data in toolOutput.tasks or in the response
\* metadata invokes window.renderTodos with that data if the function
\* exists, and stops the poll: WAITING -> DELIVERED is taken once, and once
\* the poll is stopped no later poll tick runs.
C7_PollDeliversAndStops ==
    [][/\ (PollTickStep /\ (toolOutput # "undefined" \/ metaTasks # "undefined")) =>
            /\ interval' = "cleared"
            /\ pollFound = 0
            /\ pollFound' = 1
            /\ IF renderDefined
               THEN /\ scriptRenders' = scriptRenders + 1
                    /\ shown' \in {toolOutput, metaTasks} \ {"undefined"}
               ELSE /\ scriptRenders' = scriptRenders
                    /\ shown' = shown
       /\ (PollTickStep /\ toolOutput = "undefined" /\ metaTasks = "undefined") =>
            /\ interval' = "active"
            /\ scriptRenders' = scriptRenders
       /\ interval = "cleared" => (interval' = "cleared" /\ ~PollTickStep)
       /\ pollFound = 1 => (pollFound' = 1 /\ interval' = "cleared")]_vars

\* The third poll tick found [t1] in the metadata and rendered it; the poll
\* made no further tick up to the timeout.
C7_Witness ==
    /\ pollFound = 1
    /\ pollTicks = 3
    /\ scriptRenders = 1
    /\ shown = "[t1]"
    /\ toolOutput = "undefined"
    /\ metaTasks = "[t1]"
    /\ timeoutFired
    /\ clock = PollTimeoutMs

\* C8: once the 5000ms timeout has fired no poll tick runs again, whether
\* or not data was found or rendered, so the number of poll ticks is
\* bounded (by 5000ms / 100ms).
C8_TimeoutStopsPolling ==
    [][/\ timeoutFired => (~PollTickStep /\ timeoutFired')
       /\ timeoutFired' => (interval' = "cleared" /\ clock' = PollTimeoutMs)
       /\ pollTicks' * PollIntervalMs <= PollTimeoutMs]_vars

\* The timeout fired after 50 ticks that found nothing; data that the host
\* supplied afterwards is never polled.
C8_Witness ==
    /\ timeoutFired
    /\ pollFound = 0
    /\ pollTicks = 50
    /\ scriptRenders = 0
    /\ renderDefined
    /\ toolOutput = "[t1]"

\* C9: the message listener does not depend on the poll state: for every
\* message of shape {type:'structuredContent', content:{tasks}} or
\* {type:'widgetData', tasks}, whatever the poll has done, the script invokes
\* window.renderTodos with the message's tasks if the function exists, once
\* per message, a repeated message included.
C9_ListenerIndependent ==
    [][(MessageStep /\ spc = "running" /\ ShapeTasks(lastMsg') # "undefined") =>
          IF renderDefined
          THEN /\ scriptRenders' = scriptRenders + 1
               /\ shown' = ShapeTasks(lastMsg')
          ELSE scriptRenders' = scriptRenders]_vars

\* The same widgetData message arrived twice after the timeout had stopped
\* a poll that never found data, and was rendered both times.
C9_Witness ==
    /\ timeoutFired
    /\ pollFound = 0
    /\ toolOutput = "undefined"
    /\ metaTasks = "undefined"
    /\ msgs = 2
    /\ scriptRenders = 2
    /\ lastMsg = [type |-> "widgetData", contentTasks |-> "undefined",
                  tasks |-> "[t1]"]
    /\ shown = "[t1]"

-----------------------------------------------------------------------------
(***************************************************************************)
(* Post-Processor: properties                                              *)
(***************************************************************************)
\* Number of occurrences of pat in h.
Count(h, pat) == Cardinality({i \in 1..(Len(h) + 1) : OccursAt(h, pat, i)})

\* h without the n pieces that start at position i.
Without(h, i, n) == SubSeq(h, 1, i - 1) \o SubSeq(h, i + n, Len(h))

\* C10 as stated: for every input that contains "</body>", the output
\* contains exactly one script block, placed immediately before a closing
\* body tag, and removing that block gives back the input.
C10_ExactlyOneBlock ==
    (hpc = "done" /\ \E i \in 1..Len(html) : html[i] = "</body>") =>
        /\ Count(out, dataInjectionScript) = 1
        /\ \E i \in 1..Len(out) :
              /\ OccursAt(out, dataInjectionScript \o CloseBody, i)
              /\ Without(out, i, Len(dataInjectionScript)) = html

\* C10 (amended): for every input that contains "</body>", the output is
\* the input with the script block inserted immediately before the first
\* closing body tag, so removing the inserted block gives back the input;
\* the output contains exactly one script block when the input holds no
\* script element of the block.
C10_InsertedBeforeFirstClose ==
    (hpc = "done" /\ \E i \in 1..Len(html) : html[i] = "</body>") =>
        \E i \in 1..Len(html) :
            /\ html[i] = "</body>"
            /\ \A j \in 1..(i - 1) : html[j] # "</body>"
            /\ OccursAt(out, dataInjectionScript \o CloseBody, i)
            /\ Without(out, i, Len(dataInjectionScript)) = html
            /\ Len(out) = Len(html) + Len(dataInjectionScript)
            /\ (\A j \in 1..Len(html) : html[j] # ScriptElement) =>
                   Count(out, dataInjectionScript) = 1

\* An input with two closing body tags has been processed: the block stands
\* before the first one only.
C10_Witness ==
    /\ hpc = "done"
    /\ html = <<"x", "</body>", "x", "</body>">>
    /\ out = <<"x", NL2, SP2, ScriptElement, NL2, "</body>", "x", "</body>">>

\* C11: for every input that does not contain "</body>", the output is the
\* input followed by the script block: the input is a prefix of the output
\* and the script block is its suffix.
C11_AppendFallback ==
    (hpc # "input" /\ \A i \in 1..Len(html) : html[i] # "</body>") =>
        /\ Len(out) = Len(html) + Len(dataInjectionScript)
        /\ SubSeq(out, 1, Len(html)) = html
        /\ SubSeq(out, Len(html) + 1, Len(out)) = dataInjectionScript

\* An input whose only closing body tag is written in upper case has been
\* processed: the block stands at the end.
C11_Witness ==
    /\ hpc = "done"
    /\ html = <<"x", "</BODY>", "x">>
    /\ out = <<"x", "</BODY>", "x", NL2, SP2, ScriptElement, NL2>>

\* C13 as stated: applying processWidgetHtml to a document it has already
\* processed yields that document unchanged, and no second script block is
\* added.
C13_Idempotent ==
    hpc = "twice" =>
        /\ out2 = out
        /\ Count(out2, dataInjectionScript) = Count(out, dataInjectionScript)

\* C13 (amended): processWidgetHtml does not look for a block that is
\* already there: applied to a document it has already processed it inserts
\* one more script block, before the first closing body tag or at the end,
\* so the second result is never the first.
C13_SecondBlockAdded ==
    hpc = "twice" =>
        /\ out2 # out
        /\ Len(out2) = Len(out) + Len(dataInjectionScript)
        /\ Count(out2, dataInjectionScript) > Count(out, dataInjectionScript)
        /\ \E i \in 1..(Len(out) + 1) :
              /\ OccursAt(out2, dataInjectionScript, i)
              /\ Without(out2, i, Len(dataInjectionScript)) = out
              /\ \/ OccursAt(out, CloseBody, i)
                 \/ (i = Len(out) + 1 /\ ~Includes(out, CloseBody))

\* A document with a closing body tag has been processed twice and holds
\* two script blocks before the tag.
C13_Witness ==
    /\ hpc = "twice"
    /\ html = <<"x", "</body>">>
    /\ out = <<"x", NL2, SP2, ScriptElement, NL2, "</body>">>
    /\ out2 = <<"x", NL2, SP2, ScriptElement, NL2,
                NL2, SP2, ScriptElement, NL2, "</body>">>

-----------------------------------------------------------------------------
(***************************************************************************)
(* Tool Host: further properties                                           *)
(***************************************************************************)
ToolOps == {"add_todo", "complete_todo", "list_todos"}

\* C12: every response of add_todo, complete_todo (found or not) and
\* list_todos carries the stored collection, as it is after the call, in
\* all three representations: the JSON of the <widget-data> text block,
\* structuredContent.tasks and _meta['openai/widgetData'].tasks.
C12_ThreeRepresentations ==
    [][\A op \in ToolOps : Handled(op) =>
          /\ response'.structuredContent = todos'
          /\ response'.meta = todos'
          /\ response'.widgetData = WidgetData(todos')]_vars

\* complete_todo has just answered with the second of two items completed,
\* in all three representations.
C12_Witness ==
    /\ lastCall = [op |-> "complete_todo", arg |-> "todo-2"]
    /\ Len(todos) = 2
    /\ response.meta = todos
    /\ response.structuredContent[2].completed
    /\ response.widgetData =
         "<widget-data>{\"tasks\":[{\"id\":\"todo-1\",\"title\":\"a\",\"completed\":false},{\"id\":\"todo-2\",\"title\":\"a\",\"completed\":true}]}</widget-data>"

\* The step just taken is a fetch of the resource ui://widget/todo.html.
ResourceStep == calls' = calls + 1 /\ lastCall'.op = "read_resource"

\* C15: if reading the prebuilt document failed at startup the host holds
\* the placeholder; the document never changes after startup, and every
\* resource fetch, after any tool calls, returns exactly that document.
C15_DocumentFixed ==
    [][/\ todoWidgetHtml' = todoWidgetHtml
       /\ loadFailed => todoWidgetHtml = Placeholder
       /\ ResourceStep => resourceText' = todoWidgetHtml]_vars

\* After a failed load and two add_todo calls, a resource fetch returned the
\* placeholder.
C15_Witness ==
    /\ loadFailed
    /\ Len(todos) = 2
    /\ lastCall.op = "read_resource"
    /\ resourceText = Placeholder

\* C16: list_todos answers 'You have N todos.' where N is the length of the
\* collection, which is the number of add_todo calls handled so far,
\* whatever complete_todo and list_todos calls came between them.
C16_ListCount ==
    [][Handled("list_todos") =>
          /\ response'.text = "You have " \o ToString(Len(todos)) \o " todos."
          /\ Len(todos) = Len(assigned)]_vars

\* add 'Buy milk', complete 'todo-1', list: 'You have 1 todos.'
C16_Witness ==
    /\ calls = 3
    /\ lastCall.op = "list_todos"
    /\ response.text = "You have 1 todos."
    /\ todos = <<[id |-> "todo-1", title |-> "Buy milk", completed |-> TRUE]>>

\* C18: an item once in the collection is never removed, keeps its id, its
\* title and its position, and its completed flag never goes from true
\* back to false.
C18_CollectionMonotone ==
    [][/\ Len(todos') >= Len(todos)
       /\ \A i \in 1..Len(todos) :
             /\ todos'[i].id = todos[i].id
             /\ todos'[i].title = todos[i].title
             /\ todos[i].completed => todos'[i].completed]_vars

\* A completed first item is still first and completed after two more adds
\* and another completion.
C18_Witness ==
    /\ calls = MaxCalls
    /\ Len(todos) = 3
    /\ todos[1].completed
    /\ todos[3].completed
    /\ ~todos[2].completed
    /\ lastCall = [op |-> "complete_todo", arg |-> "todo-3"]

\* C20: in every reachable state nextId is the length of the collection
\* plus 1 and the item at position i has id 'todo-i'; hence complete_todo
\* finds an item exactly when its id is 'todo-k' with 1 <= k <= length.
C20_IdsArePositions ==
    [][/\ nextId = Len(todos) + 1
       /\ nextId' = Len(todos') + 1
       /\ \A i \in 1..Len(todos') : todos'[i].id = "todo-" \o ToString(i)
       /\ Handled("complete_todo") =>
             ((response'.text # "Todo " \o lastCall'.arg \o " was not found.")
                <=> \E k \in 1..Len(todos) :
                       lastCall'.arg = "todo-" \o ToString(k))]_vars

\* With three items, complete_todo found 'todo-3'.
C20_Witness ==
    /\ Len(todos) = 3
    /\ nextId = 4
    /\ lastCall = [op |-> "complete_todo", arg |-> "todo-3"]
    /\ response.text = "Completed \"Buy milk\"."

-----------------------------------------------------------------------------
(***************************************************************************)
(* Injected script: further properties                                     *)
(***************************************************************************)
\* The step just taken is a run of checkAndRenderData that rendered.
CheckRenderStep == scriptRenders' = scriptRenders + 1 /\ ~MessageStep

\* C17: the data check consults its sources in priority order: when
\* toolOutput has tasks the render function gets the toolOutput tasks, also
\* when the metadata has tasks too; the metadata tasks are rendered only
\* when toolOutput has none.
C17_ToolOutputFirst ==
    [][CheckRenderStep =>
          IF toolOutput # "undefined"
          THEN shown' = toolOutput
          ELSE metaTasks # "undefined" /\ shown' = metaTasks]_vars

\* A poll tick found tasks in both sources and rendered those of toolOutput.
C17_Witness ==
    /\ pollFound = 1
    /\ pollTicks = 2
    /\ scriptRenders = 1
    /\ toolOutput = "[t1]"
    /\ metaTasks = "[]"
    /\ shown = "[t1]"
    /\ msgs = 0

-----------------------------------------------------------------------------
(***************************************************************************)
(* Build Orchestrator: properties                                          *)
(***************************************************************************)
\* The fetch failed to connect or answered with a status outside 200-299.
FetchFailed ==
    \/ bfetch.kind = "refused"
    \/ bfetch.kind = "response" /\ (bfetch.status < 200 \/ bfetch.status > 299)

\* C14: if the fetch fails to connect or returns a non-success status, the
\* run reports the failure and exits with a non-zero status without calling
\* the Post-Processor and without creating or overwriting the output file
\* (or its directory); the file is written only after a successful fetch,
\* the post-processing and the directory check, in that order.
C14_FailedFetchWritesNothing ==
    /\ FetchFailed =>
          /\ trace = <<"fetch">>
          /\ bhtml = <<>>
          /\ bdir = bstart.dir
          /\ bfile = bstart.file
          /\ bpc \in {"caught", "exited"}
    /\ (FetchFailed /\ bpc = "exited") => (breported /\ exitCode = 1)
    /\ (\E i \in 1..Len(trace) : trace[i] = "write") =>
          /\ trace = <<"fetch", "process", "dircheck", "write">>
          /\ bfetch.kind = "response"
          /\ ~FetchFailed
    /\ bfile # bstart.file =>
          /\ trace = <<"fetch", "process", "dircheck", "write">>
          /\ bfile = [exists |-> TRUE, text |-> bhtml]
          /\ bdir

\* The server answered 404: the run has exited with status 1 and the file of
\* the earlier run is as it was.
C14_Witness ==
    /\ bpc = "exited"
    /\ bfetch.kind = "response"
    /\ bfetch.status = 404
    /\ exitCode = 1
    /\ breported
    /\ bfile = OldFile

-----------------------------------------------------------------------------
(***************************************************************************)
(* Tool calls in flight: properties                                        *)
(***************************************************************************)
\* The collection and the counter after one call handled on its own.
AfterCall(st, c) ==
    IF c.op = "add_todo"
    THEN [todos |-> Append(st.todos,
                      [id |-> "todo-" \o ToString(st.nextId),
                       title |-> c.arg, completed |-> FALSE]),
          nextId |-> st.nextId + 1]
    ELSE IF c.op = "complete_todo"
    THEN [todos |->
              [i \in 1..Len(st.todos) |->
                  IF st.todos[i].id = c.arg
                  THEN [st.todos[i] EXCEPT !.completed = TRUE]
                  ELSE st.todos[i]],
          nextId |-> st.nextId]
    ELSE st

\* The collection and the counter after the calls of the requests rs,
\* handled one after the other in that order, from the initial state.
RECURSIVE SerialOutcome(_)
SerialOutcome(rs) ==
    IF rs = <<>> THEN [todos |-> <<>>, nextId |-> 1]
    ELSE AfterCall(SerialOutcome(SubSeq(rs, 1, Len(rs) - 1)),
                   handlers[rs[Len(rs)]])

\* C19: with several tool calls in flight, no handler runs between the
\* statements of another, so the outcome is that of the calls handled one
\* after the other in the order their handlers began: no add_todo is lost,
\* no two items get the same id, and no complete_todo overwrites an
\* add_todo.
C19_Serializable ==
    /\ \A i, j \in 1..Len(todos) : i # j => todos[i].id # todos[j].id
    /\ Cardinality({r \in Requests : handlers[r].pc \in MidRun}) <= 1
    /\ (\A r \in Requests : handlers[r].pc \notin MidRun) =>
          /\ todos = SerialOutcome(order).todos
          /\ nextId = SerialOutcome(order).nextId
          /\ Len(todos) =
               Cardinality({r \in Requests :
                   handlers[r].op = "add_todo" /\ handlers[r].pc = "done"})

\* Three calls were in flight together and their handlers began in another
\* order than the requests arrived: both adds are in the collection and the
\* completion of 'todo-1' is kept.
C19_Witness ==
    /\ \A r \in Requests : handlers[r].pc = "done"
    /\ handlers[1].op = "complete_todo"
    /\ handlers[1].arg = "todo-1"
    /\ handlers[2].op = "add_todo"
    /\ handlers[3].op = "add_todo"
    /\ order = <<3, 1, 2>>
    /\ Len(todos) = 2
    /\ todos[1] = [id |-> "todo-1", title |-> handlers[3].arg, completed |-> TRUE]
    /\ todos[2].id = "todo-2"

-----------------------------------------------------------------------------
(***************************************************************************)
(* Injected script: the poll and the render function                       *)
(***************************************************************************)
\* C21: the poll stops before the 5000ms timeout only after
\* window.renderTodos has actually been invoked with the found tasks: the
\* tick that clears the interval makes the render call, so data found while
\* the render function is not yet defined is not dropped.
C21_StopsOnlyAfterRender ==
    [][(PollTickStep /\ interval = "active" /\ interval' = "cleared") =>
          /\ scriptRenders' = scriptRenders + 1
          /\ shown' = RenderTodos(DataToRender(toolOutput, metaTasks))]_vars

====
